---- MODULE Spec2Model ----
(***************************************************************************)
(* State-machine model of the Drive -> Gemini File Search sync pipeline of *)
(* gemini_drive_connector: the paginated lister, the size guard, the       *)
(* chunked downloader, upload, import start, the import poller and the     *)
(* batch loop with its per-file error boundary.                            *)
(*                                                                         *)
(* Strings of the program (folder ids, file ids) are sequences of          *)
(* naturals: 0 is a whitespace character, any other number a visible one.  *)
(* Exceptions are records [cls, status, msg]; cls is the Python class.     *)
(***************************************************************************)
EXTENDS Integers, Sequences, FiniteSets, TLC

----------------------------------------------------------------------------
(* Program constants: config/settings.py and drive/files.py               *)

MAX_FILE_SIZE_MB == 100
MAX_POLL_ATTEMPTS == 60
POLL_INTERVAL == 3
INITIAL_POLL_INTERVAL == 1
MAX_POLL_INTERVAL == 10
BYTES_PER_MB == 1048576

_get_max_pages == 100

_get_max_chunks == MAX_FILE_SIZE_MB

----------------------------------------------------------------------------
(* Bounds of the model                                                    *)

\* Files in the folder of one sync run.
MaxFiles == 3
\* Largest page (in files) of the folders the lister is run on alone.
MaxPageFiles == 2
\* How far around the size limit, and above zero, reported sizes are drawn.
SizeSpread == 2
\* Calls of sync_folder_to_store made on one connector.
MaxCalls == 3

----------------------------------------------------------------------------
(* Values                                                                 *)

NoError == [cls |-> "NoError", status |-> 0, msg |-> ""]

Exc(c, m) == [cls |-> c, status |-> 0, msg |-> m]
HttpError(s) == [cls |-> "HttpError", status |-> s, msg |-> "http"]

\* The direct base class of a Python exception class.
BaseOf(c) ==
    CASE c \in {"FileNotFoundError", "PermissionError", "TimeoutError",
                "ConnectionError"} -> "OSError"
      [] c \in {"OSError", "ValueError", "KeyError", "AttributeError",
                "RuntimeError", "TypeError", "HttpError",
                "APIError"} -> "Exception"
      [] OTHER -> "BaseException"

\* isinstance(e, classes): the class of e or one of its bases is listed.
IsInstance(e, classes) ==
    LET c0 == e.cls
        c1 == BaseOf(c0)
        c2 == BaseOf(c1)
        c3 == BaseOf(c2)
    IN  {c0, c1, c2, c3} \cap classes # {}

RECURSIVE strip(_)
\* str.strip(): leading and trailing whitespace removed.
strip(value) ==
    IF value = <<>> THEN <<>>
    ELSE IF Head(value) = 0 THEN strip(Tail(value))
    ELSE IF value[Len(value)] = 0 THEN strip(SubSeq(value, 1, Len(value) - 1))
    ELSE value

\* validate_not_empty: the error it raises, or NoError.
validate_not_empty(value, field_name) ==
    IF value = <<>> \/ strip(value) = <<>>
    THEN Exc("ValueError", field_name)
    ELSE NoError

validate_folder_id(folder_id_) == validate_not_empty(folder_id_, "Folder ID cannot be empty")

validate_file_id(file_id) == validate_not_empty(file_id, "File ID cannot be empty")

\* _handle_http_error: the exception an HttpError of this status becomes.
_handle_http_error(status, operation) ==
    IF status = 404 THEN Exc("FileNotFoundError", operation)
    ELSE IF status = 403 THEN Exc("PermissionError", operation)
    ELSE Exc("RuntimeError", operation)

RECURSIVE Flatten(_)
\* The concatenation of a sequence of pages.
Flatten(pages) ==
    IF pages = <<>> THEN <<>> ELSE Head(pages) \o Flatten(Tail(pages))

----------------------------------------------------------------------------
(* State                                                                  *)

VARIABLES
    pc,               \* where the single thread of control stands
    folder_id,        \* the argument of sync_folder_to_store
    drive,            \* the remote folder: its sequence of pages
    files,            \* the accumulator of _fetch_all_files, then the listing
    page_token,       \* cursor of the next page; 0 is None
    page_count,       \* _fetch_all_files.page_count
    requests,         \* page requests issued to the remote in this run
    page_warning,     \* _check_page_limit logged "some files may be missing"
    list_failure,     \* remote: what the failed page request raised, if one did
    file_index,       \* position of the batch loop (1-based)
    invoked,          \* per listed file: calls of _process_file_safely
    outcome,          \* per listed file: "pending", "ok" or "skipped"
    error,            \* the exception in flight inside _process_file_safely
    logged,           \* log level used by the per-file boundary for this file
    result,           \* how sync_folder_to_store ended: kind and exception
    stream_len,       \* remote: chunk on which the current file's stream ends
    file_size_bytes,  \* _validate_file_size.file_size_bytes (-1: not held)
    file_metadata,    \* _validate_file_size.file_metadata
    empty_warning,    \* _validate_file_size logged "File ... is empty"
    chunk_count,      \* _download_to_buffer.chunk_count
    buffer,           \* _download_to_buffer.buffer
    file_content,     \* _process_file.file_content
    uploaded_name,    \* _process_file.uploaded_file_name (0: not held)
    operation,        \* _wait_for_operation.operation
    poll_attempts,    \* _wait_for_operation.poll_attempts
    current_interval, \* _wait_for_operation.current_interval, a rational
    uploaded_content, \* the bytes sent by the current file's upload request
    ops,              \* remote operations issued for the current file, in order
    slept,            \* intervals slept by the current poll run, in order
    blobs,            \* remote: blobs created by uploads
    jobs,             \* remote: import jobs started
    summary,          \* count logged by the end-of-run summary (-1: none)
    _store,           \* GeminiFileStore._store: the store created by __init__
    _drive_client,    \* GeminiDriveConnector._drive_client (0: None)
    _service,         \* DriveClient._service (0: None)
    token_file,       \* the file at DriveAuth.token_path
    creds,            \* get_service.creds
    events            \* connector and credential steps taken so far, in order

listVars == <<folder_id, drive, files, page_token, page_count, requests, page_warning,
              list_failure>>
batchVars == <<file_index, invoked, outcome, error, logged>>
fileVars == <<stream_len, file_size_bytes, file_metadata, empty_warning, chunk_count, buffer, file_content,
              uploaded_name, operation, poll_attempts, current_interval,
              uploaded_content, ops, slept>>
remoteVars == <<blobs, jobs>>
connVars == <<_store, _drive_client, _service, token_file, creds, events>>
vars == <<pc, listVars, batchVars, fileVars, remoteVars, result, summary, connVars>>

Running == [kind |-> "running", exc |-> NoError]
Returned == [kind |-> "returned", exc |-> NoError]
Raised(e) == [kind |-> "raised", exc |-> e]

NoOperation == [done |-> FALSE, error |-> "unset"]
\* No metadata response is held.
NoMetadata == [unset |-> TRUE]
Rat(n, d) == [num |-> n, den |-> d]

\* An entry of the log of remote operations: the operation, whether the call
\* raised, and what the remote answered (metadata: 1 if the size is over the
\* limit; chunk: 1 if the stream is complete; upload: 1 if a blob name came
\* back; import and poll: 1 if the job is done).
Op(name, failed, flag) == [op |-> name, failed |-> failed, flag |-> flag]
Flag(b) == IF b THEN 1 ELSE 0

\* Mutant of FileLocalsCleared: the downloaded content outlives the file's
\* pipeline.
FileLocalsClearedKeepingContent ==
    /\ file_size_bytes' = -1
    /\ file_metadata' = NoMetadata
    /\ empty_warning' = FALSE
    /\ chunk_count' = 0
    /\ buffer' = <<>>
    /\ UNCHANGED file_content
    /\ uploaded_name' = 0
    /\ operation' = NoOperation
    /\ poll_attempts' = 0
    /\ current_interval' = Rat(INITIAL_POLL_INTERVAL, 1)
    /\ uploaded_content' = <<>>

\* Mutant of FileLocalsCleared: the poll interval reached by one file is
\* where the next file starts.
FileLocalsClearedKeepingInterval ==
    /\ file_size_bytes' = -1
    /\ file_metadata' = NoMetadata
    /\ empty_warning' = FALSE
    /\ chunk_count' = 0
    /\ buffer' = <<>>
    /\ file_content' = <<>>
    /\ uploaded_name' = 0
    /\ operation' = NoOperation
    /\ poll_attempts' = 0
    /\ UNCHANGED current_interval
    /\ uploaded_content' = <<>>

\* The locals of one file's pipeline, as they are before the pipeline starts
\* and after it has returned.
FileLocalsCleared ==
    /\ file_size_bytes' = -1
    /\ file_metadata' = NoMetadata
    /\ empty_warning' = FALSE
    /\ chunk_count' = 0
    /\ buffer' = <<>>
    /\ file_content' = <<>>
    /\ uploaded_name' = 0
    /\ operation' = NoOperation
    /\ poll_attempts' = 0
    /\ current_interval' = Rat(INITIAL_POLL_INTERVAL, 1)
    /\ uploaded_content' = <<>>

----------------------------------------------------------------------------
(* The remote folder                                                      *)

\* A listed descriptor: "id" and "name" are the fields the batch loop reads;
\* a shape says which of them the remote supplied.
DescriptorShapes == {"full", "blank_id", "no_id", "no_name"}

Descriptor(key, shape) ==
    CASE shape = "full" -> [id |-> key, name |-> key]
      [] shape = "blank_id" -> [id |-> <<0>>, name |-> key]
      [] shape = "no_id" -> [name |-> key]
      [] shape = "no_name" -> [id |-> key]

\* Folders of one sync run: up to MaxFiles files, one file per page, and the
\* empty folder as one empty page.
SyncFolders ==
    {<< <<>> >>} \cup
    UNION {{[k \in 1..n |-> <<Descriptor(<<k>>, shapes[k])>>] :
              shapes \in [1..n -> DescriptorShapes]} : n \in 1..MaxFiles}

\* Folders the lister is run on alone: n pages whose sizes repeat a pattern
\* of two sizes, for every n up to one page past the page ceiling.
ListFolders ==
    {[k \in 1..n |->
        [j \in 1..(IF k % 2 = 1 THEN a ELSE b) |-> Descriptor(<<k, j>>, "full")]] :
        n \in 1..(_get_max_pages + 1), a \in 0..MaxPageFiles, b \in 0..MaxPageFiles}

\* The remote's answer to files().list with this cursor: the page the cursor
\* names and, unless it is the last page, the cursor of the next one.
ListResponse(token) ==
    LET k == IF token = 0 THEN 1 ELSE token
    IN  [files |-> drive[k],
         nextPageToken |-> IF k < Len(drive) THEN k + 1 ELSE 0]

\* What a remote call can raise: an HttpError with a status, or another
\* exception of the transport.
TransportFailures ==
    {HttpError(404), HttpError(403), HttpError(500),
     Exc("ConnectionError", "transport"), Exc("FileNotFoundError", "transport"),
     Exc("PermissionError", "transport"), Exc("KeyError", "transport")}

FolderIds == {<<>>, <<0>>, <<7, 0>>}

----------------------------------------------------------------------------
(* Paginated lister: drive/files.py                                       *)

\* _fetch_page: an HttpError becomes what _handle_http_error raises, any other
\* exception passes through.
_fetch_page_error(failure) ==
    IF failure.cls = "HttpError"
    THEN _handle_http_error(failure.status, "list files")
    ELSE failure

\* Mutant of _fetch_all_files_error: the generic except clause is missing, so
\* every exception leaves unwrapped.
_fetch_all_files_error_unwrapped(e) == e

\* The except clauses of _fetch_all_files.
_fetch_all_files_error(e) ==
    IF IsInstance(e, {"FileNotFoundError", "PermissionError", "RuntimeError"})
    THEN e
    ELSE Exc("RuntimeError", "Failed to list files")

\* Mutant of _extend: the page is assigned instead of appended.
_extend_overwrites(accumulated, page_files) == page_files

\* files.extend(page_files)
_extend(accumulated, page_files) == accumulated \o page_files

\* response.get("files", [])
_extract_files_from_response(response) ==
    IF "files" \in DOMAIN response THEN response.files ELSE <<>>

\* response.get("nextPageToken")
_get_next_page_token(response) ==
    IF "nextPageToken" \in DOMAIN response THEN response.nextPageToken ELSE 0

\* Mutant of _page_loop_continues: the ceiling is tested with <=.
_page_loop_continues_one_more(count) == count <= _get_max_pages

\* The loop condition of _fetch_all_files.
_page_loop_continues(count) == count < _get_max_pages

\* Mutant of _check_page_limit: the warning comes one page early.
_check_page_limit_one_early(count) == count >= _get_max_pages - 1

\* _check_page_limit: whether the warning is logged.
_check_page_limit(count) == count >= _get_max_pages

\* sync_folder_to_store up to list_files: validate the folder id and enter
\* the page loop.
list_files ==
    /\ pc = "idle"
    /\ LET invalid == validate_folder_id(folder_id)
       IN  IF invalid # NoError
           THEN /\ pc' = "done"
                /\ result' = Raised(invalid)
                /\ UNCHANGED <<files, page_token, page_count>>
           ELSE /\ files' = <<>>
                /\ page_token' = 0
                /\ page_count' = 0
                /\ IF _page_loop_continues(0)
                   THEN pc' = "listing"
                   ELSE pc' = "listed"
                /\ UNCHANGED result
    /\ UNCHANGED <<folder_id, drive, connVars, requests, page_warning, list_failure, batchVars,
                   fileVars, remoteVars, summary>>

\* Mutant of _fetch_all_files: a failed page request ends the loop and the
\* files accumulated so far are returned.
_fetch_all_files_partial_on_error ==
    /\ pc = "listing"
    /\ requests' = requests + 1
    /\ \/ \E failure \in TransportFailures :
            /\ list_failure' = failure
            /\ pc' = "listed"
            /\ UNCHANGED <<files, page_token, page_count, page_warning, result>>
       \/ LET resp == ListResponse(page_token)
          IN  /\ files' = _extend(files, _extract_files_from_response(resp))
              /\ UNCHANGED list_failure
              /\ page_token' = _get_next_page_token(resp)
              /\ IF _get_next_page_token(resp) = 0
                 THEN /\ page_count' = page_count
                      /\ page_warning' = _check_page_limit(page_count)
                      /\ pc' = "listed"
                 ELSE /\ page_count' = page_count + 1
                      /\ IF _page_loop_continues(page_count + 1)
                         THEN /\ pc' = "listing"
                              /\ UNCHANGED page_warning
                         ELSE /\ pc' = "listed"
                              /\ page_warning' = _check_page_limit(page_count + 1)
              /\ UNCHANGED result
    /\ UNCHANGED <<folder_id, drive, connVars, batchVars, fileVars, remoteVars, summary>>

\* One iteration of the page loop of _fetch_all_files, with what follows the
\* loop when this iteration ends it. An exception leaves the function without
\* a return value: the accumulator is dropped with the frame.
_fetch_all_files ==
    /\ pc = "listing"
    /\ requests' = requests + 1
    /\ \/ \E failure \in TransportFailures :
            /\ list_failure' = failure
            /\ result' = Raised(_fetch_all_files_error(_fetch_page_error(failure)))
            /\ pc' = "done"
            /\ files' = <<>>
            /\ UNCHANGED <<page_token, page_count, page_warning>>
       \/ LET resp == ListResponse(page_token)
          IN  /\ files' = _extend(files, _extract_files_from_response(resp))
              /\ UNCHANGED list_failure
              /\ page_token' = _get_next_page_token(resp)
              /\ IF _get_next_page_token(resp) = 0
                 THEN /\ page_count' = page_count
                      /\ page_warning' = _check_page_limit(page_count)
                      /\ pc' = "listed"
                 ELSE /\ page_count' = page_count + 1
                      /\ IF _page_loop_continues(page_count + 1)
                         THEN /\ pc' = "listing"
                              /\ UNCHANGED page_warning
                         ELSE /\ pc' = "listed"
                              /\ page_warning' = _check_page_limit(page_count + 1)
              /\ UNCHANGED result
    /\ UNCHANGED <<folder_id, drive, connVars, batchVars, fileVars, remoteVars, summary>>

----------------------------------------------------------------------------
(* Batch loop and per-file boundary: connector.py                         *)

\* Mutant of _after_listing: the early return on an empty listing is missing.
_after_listing_no_early_return(listing) == "process"

\* sync_folder_to_store after the listing: an empty listing ends the run,
\* anything else enters the batch loop.
_after_listing(listing) == IF listing = <<>> THEN "return" ELSE "process"

sync_folder_to_store ==
    /\ pc = "listed"
    /\ IF _after_listing(files) = "return"
       THEN /\ pc' = "done"
            /\ result' = Returned
            /\ UNCHANGED <<file_index, invoked, outcome>>
       ELSE /\ pc' = "loop"
            /\ file_index' = 1
            /\ invoked' = [i \in 1..Len(files) |-> 0]
            /\ outcome' = [i \in 1..Len(files) |-> "pending"]
            /\ UNCHANGED result
    /\ UNCHANGED <<listVars, connVars, error, logged, fileVars, remoteVars, summary>>

\* The head of one iteration of the loop of _process_all_files: the error of
\* reading file_info["id"] and file_info["name"], or NoError.
_read_descriptor(file_info) ==
    IF "id" \notin DOMAIN file_info THEN Exc("KeyError", "id")
    ELSE IF "name" \notin DOMAIN file_info THEN Exc("KeyError", "name")
    ELSE NoError

\* Mutant of _summary_count: the summary counts the files that succeeded.
_summary_count_succeeded(listing, outcomes) ==
    Cardinality({i \in 1..Len(listing) : outcomes[i] = "ok"})

\* The count of the summary logged by sync_folder_to_store: len(files).
_summary_count(listing, outcomes) == Len(listing)

\* The loop of _process_all_files: after the last file the run logs its
\* summary and returns; otherwise the next descriptor is read and handed to
\* _process_file_safely, whose pipeline starts with validate_file_id.
_process_all_files ==
    /\ pc = "loop"
    /\ IF file_index > Len(files)
       THEN /\ pc' = "done"
            /\ result' = Returned
            /\ summary' = _summary_count(files, outcome)
            /\ UNCHANGED <<invoked, error, logged, ops, slept>>
       ELSE LET file_info == files[file_index]
                unreadable == _read_descriptor(file_info)
            IN  IF unreadable # NoError
                THEN /\ pc' = "done"
                     /\ result' = Raised(unreadable)
                     /\ UNCHANGED <<invoked, error, logged, ops, slept, summary>>
                ELSE /\ invoked' = [invoked EXCEPT ![file_index] = @ + 1]
                     /\ logged' = "none"
                     /\ ops' = <<>>
                     /\ slept' = <<>>
                     /\ LET invalid == validate_file_id(file_info.id)
                        IN  IF invalid # NoError
                            THEN pc' = "except" /\ error' = invalid
                            ELSE pc' = "size" /\ UNCHANGED error
                     /\ UNCHANGED <<result, summary>>
    /\ UNCHANGED <<listVars, connVars, file_index, outcome, stream_len, file_size_bytes, file_metadata,
                   empty_warning, chunk_count, buffer, file_content, uploaded_name, operation,
                   poll_attempts, current_interval, uploaded_content, remoteVars>>

\* The classes of the first except clause of _process_file_safely.
ExpectedErrors ==
    {"OSError", "ValueError", "KeyError", "AttributeError", "TimeoutError",
     "FileNotFoundError", "PermissionError"}

\* Mutant of _process_file_safely: the catch-all except clause is missing.
_process_file_safely_expected_only(e) ==
    IF IsInstance(e, ExpectedErrors) THEN "error" ELSE "propagate"

\* Mutant of _process_file_safely: the catch-all clause catches BaseException.
_process_file_safely_catches_base(e) ==
    IF IsInstance(e, ExpectedErrors) THEN "error" ELSE "exception"

\* The except clauses of _process_file_safely: the log level used for the
\* exception, or "propagate" when no clause catches it.
_process_file_safely(e) ==
    IF IsInstance(e, ExpectedErrors) THEN "error"
    ELSE IF IsInstance(e, {"Exception"}) THEN "exception"
    ELSE "propagate"

\* Mutant of _process_file_safely_except: the handler deletes the blob and
\* the job of the failed file.
_process_file_safely_except_rolling_back ==
    /\ pc = "except"
    /\ LET handling == _process_file_safely(error)
       IN  IF handling = "propagate"
           THEN /\ pc' = "done"
                /\ result' = Raised(error)
                /\ UNCHANGED <<file_index, outcome, logged>>
           ELSE /\ pc' = "loop"
                /\ logged' = handling
                /\ outcome' = [outcome EXCEPT ![file_index] = "skipped"]
                /\ file_index' = file_index + 1
                /\ UNCHANGED result
    /\ error' = NoError
    /\ stream_len' = 0
    /\ FileLocalsCleared
    /\ blobs' = {b \in blobs : b.file # file_index}
    /\ jobs' = {j \in jobs : j.file # file_index}
    /\ UNCHANGED <<listVars, connVars, invoked, ops, slept, summary>>

\* An exception leaves _process_file and reaches the per-file boundary.
_process_file_safely_except ==
    /\ pc = "except"
    /\ LET handling == _process_file_safely(error)
       IN  IF handling = "propagate"
           THEN /\ pc' = "done"
                /\ result' = Raised(error)
                /\ UNCHANGED <<file_index, outcome, logged>>
           ELSE /\ pc' = "loop"
                /\ logged' = handling
                /\ outcome' = [outcome EXCEPT ![file_index] = "skipped"]
                /\ file_index' = file_index + 1
                /\ UNCHANGED result
    /\ error' = NoError
    /\ stream_len' = 0
    /\ FileLocalsCleared
    /\ UNCHANGED <<listVars, connVars, invoked, ops, slept, remoteVars, summary>>

\* Mutant of FileSucceeds: the loop index advances by two.
FileSucceedsSkippingOne ==
    /\ pc' = "loop"
    /\ outcome' = [outcome EXCEPT ![file_index] = "ok"]
    /\ file_index' = file_index + 2
    /\ UNCHANGED error

\* _process_file returned: the file is done and the loop moves on.
FileSucceeds ==
    /\ pc' = "loop"
    /\ outcome' = [outcome EXCEPT ![file_index] = "ok"]
    /\ file_index' = file_index + 1
    /\ UNCHANGED error

\* Mutant of FileRaises: a failed pipeline is started again.
FileRaisesRetrying(e) ==
    /\ pc' = "size"
    /\ error' = NoError
    /\ UNCHANGED <<outcome, file_index>>

\* _process_file raised e.
FileRaises(e) ==
    /\ pc' = "except"
    /\ error' = e
    /\ UNCHANGED <<outcome, file_index>>

\* A KeyboardInterrupt arrives while a remote call or a sleep of the current
\* file blocks, and meets the except clauses of _process_file_safely; the
\* exception records the stage it arrived in.
KeyboardInterrupt ==
    /\ pc \in {"size", "download", "upload", "import", "sleep", "poll"}
    /\ LET interrupt == Exc("KeyboardInterrupt", pc)
           handling == _process_file_safely(interrupt)
       IN  IF handling = "propagate"
           THEN /\ pc' = "done"
                /\ result' = Raised(interrupt)
                /\ UNCHANGED <<file_index, outcome, logged>>
           ELSE /\ pc' = "loop"
                /\ logged' = handling
                /\ outcome' = [outcome EXCEPT ![file_index] = "skipped"]
                /\ file_index' = file_index + 1
                /\ UNCHANGED result
    /\ stream_len' = 0
    /\ FileLocalsCleared
    /\ ops' = <<>>
    /\ slept' = <<>>
    /\ UNCHANGED <<listVars, connVars, invoked, error, remoteVars, summary>>

----------------------------------------------------------------------------
(* Size guard and chunked downloader: drive/files.py                      *)

\* The remote's file metadata: a size in bytes, or no size field at all.
SizeLimitBytes == MAX_FILE_SIZE_MB * BYTES_PER_MB

ReportedSizes ==
    (0..SizeSpread) \cup ((SizeLimitBytes - SizeSpread)..(SizeLimitBytes + SizeSpread))

Metadata == {[size |-> s, name |-> "n"] : s \in ReportedSizes} \cup {[name |-> "n"]}

\* Mutant of _metadata_size: a response without the size field counts as
\* over the limit.
_metadata_size_required(response) ==
    IF "size" \in DOMAIN response THEN response.size
    ELSE MAX_FILE_SIZE_MB * BYTES_PER_MB + 1

\* int(file_metadata.get("size", 0))
_metadata_size(response) ==
    IF "size" \in DOMAIN response THEN response.size ELSE 0

\* Mutant of _file_too_large: floor division instead of true division.
_file_too_large_floor_division(size_bytes) ==
    (size_bytes \div BYTES_PER_MB) > MAX_FILE_SIZE_MB

\* file_size_bytes / (1024 * 1024) > MAX_FILE_SIZE_MB, on the exact quotient.
_file_too_large(size_bytes) ==
    LET file_size_megabytes == Rat(size_bytes, BYTES_PER_MB)
    IN  file_size_megabytes.num > MAX_FILE_SIZE_MB * file_size_megabytes.den

\* The except clause of _validate_file_size: only an HttpError is caught.
_validate_file_size_error(failure) ==
    IF failure.cls = "HttpError"
    THEN _handle_http_error(failure.status, "get file metadata")
    ELSE failure

\* Chunks on which the stream of a file of one sync run may end; one chunk
\* past the ceiling stands for a stream that does not end within it.
StreamLens == {1, _get_max_chunks, _get_max_chunks + 1}

_validate_file_size ==
    /\ pc = "size"
    /\ \/ \E failure \in TransportFailures :
            /\ ops' = Append(ops, Op("metadata", TRUE, 0))
            /\ FileRaises(_validate_file_size_error(failure))
            /\ UNCHANGED <<file_size_bytes, file_metadata, empty_warning, stream_len>>
       \/ \E response \in Metadata :
            /\ ops' = Append(ops, Op("metadata", FALSE,
                                     Flag("size" \in DOMAIN response
                                          /\ response.size > SizeLimitBytes)))
            /\ file_metadata' = response
            /\ file_size_bytes' = _metadata_size(response)
            /\ empty_warning' = (_metadata_size(response) = 0)
            /\ IF _file_too_large(_metadata_size(response))
               THEN /\ FileRaises(Exc("ValueError", "too large"))
                    /\ UNCHANGED stream_len
               ELSE /\ pc' = "download"
                    /\ stream_len' \in StreamLens
                    /\ UNCHANGED <<error, outcome, file_index>>
    /\ UNCHANGED <<listVars, connVars, invoked, logged, chunk_count, buffer, file_content,
                   uploaded_name, operation, poll_attempts, current_interval,
                   uploaded_content, slept, remoteVars, result, summary>>

\* Mutant of _chunk_loop_continues: the ceiling is tested with <=.
_chunk_loop_continues_one_more(count) == count <= _get_max_chunks

\* The loop condition of _download_to_buffer.
_chunk_loop_continues(count) == count < _get_max_chunks

\* Mutant of _validate_chunk_count: the ceiling itself is accepted.
_validate_chunk_count_above_only(count, max_chunks) == count > max_chunks

\* _validate_chunk_count: whether it raises.
_validate_chunk_count(count, max_chunks) == count >= max_chunks

\* What downloader.next_chunk() can raise.
ChunkFailures == TransportFailures

\* Mutant of _download_next_chunk_error: an HttpError is left to the caller.
_download_next_chunk_error_http_passes(failure) ==
    IF failure.cls = "HttpError" THEN failure
    ELSE Exc("RuntimeError", "Failed to download file")

\* The except clause of _download_next_chunk: every Exception is wrapped.
_download_next_chunk_error(failure) ==
    IF IsInstance(failure, {"Exception"})
    THEN Exc("RuntimeError", "Failed to download file")
    ELSE failure

\* The except clause of _download_content: only an HttpError is converted.
_download_content_error(e) ==
    IF e.cls = "HttpError" THEN _handle_http_error(e.status, "download file") ELSE e

\* The bytes of chunk k of the file at this position of the listing.
Chunk(file, k) == <<file, k>>

\* Mutant of _read_buffer_content: read() without seek(0), at the end of
\* the buffer.
_read_buffer_content_no_seek(buf) == SubSeq(buf, Len(buf) + 1, Len(buf))

\* _read_buffer_content: seek(0), then read to the end.
_read_buffer_content(buf) == SubSeq(buf, 1, Len(buf))

\* One iteration of the loop of _download_to_buffer (one next_chunk request),
\* with what follows the loop when this iteration ends it.
_download_next_chunk ==
    /\ pc = "download"
    /\ file_size_bytes' = -1
    /\ file_metadata' = NoMetadata
    /\ empty_warning' = FALSE
    /\ \/ \E failure \in ChunkFailures :
            /\ ops' = Append(ops, Op("chunk", TRUE, 0))
            /\ FileRaises(_download_content_error(_download_next_chunk_error(failure)))
            /\ UNCHANGED <<chunk_count, buffer, file_content>>
       \/ LET received == Append(buffer, Chunk(file_index, chunk_count + 1))
              is_download_complete == (chunk_count + 1 = stream_len)
              count == IF is_download_complete THEN chunk_count ELSE chunk_count + 1
              loop_ends == is_download_complete \/ ~_chunk_loop_continues(count)
          IN  /\ ops' = Append(ops, Op("chunk", FALSE, Flag(is_download_complete)))
              /\ buffer' = received
              /\ chunk_count' = count
              /\ IF ~loop_ends
                 THEN /\ pc' = "download"
                      /\ UNCHANGED <<error, outcome, file_index, file_content>>
                 ELSE IF _validate_chunk_count(count, _get_max_chunks)
                 THEN /\ FileRaises(Exc("ValueError", "exceeded size limit"))
                      /\ UNCHANGED file_content
                 ELSE /\ file_content' = _read_buffer_content(received)
                      /\ pc' = "upload"
                      /\ UNCHANGED <<error, outcome, file_index>>
    /\ UNCHANGED <<listVars, connVars, invoked, logged, stream_len, uploaded_name, operation,
                   poll_attempts, current_interval, uploaded_content, slept,
                   remoteVars, result, summary>>

----------------------------------------------------------------------------
(* Upload, import start and import poller: gemini/file_store.py           *)

\* What a call of the Gemini client can raise.
GeminiFailures == {Exc("APIError", "gemini"), Exc("ConnectionError", "gemini")}

\* The name of the blob the store creates for the file at this position, and
\* the names the upload's answer may carry: that name, the empty string (0) or
\* None (-1).
BlobName(file) == file
UploadedNames(file) == {BlobName(file), 0, -1}

\* Mutant of _name_missing: only the empty string is tested, not None.
_name_missing_empty_only(name) == name = 0

\* Mutant of _name_missing: only None is tested, not the empty string.
_name_missing_none_only(name) == name = -1

\* _validate_uploaded_file_name: "not uploaded_name".
_name_missing(name) == name \in {0, -1}

\* _upload_file_to_store and _validate_uploaded_file_name.
upload_file ==
    /\ pc = "upload"
    /\ uploaded_content' = file_content
    /\ \/ \E failure \in GeminiFailures :
            /\ ops' = Append(ops, Op("upload", TRUE, 0))
            /\ FileRaises(failure)
            /\ UNCHANGED <<uploaded_name, blobs>>
       \/ \E name \in UploadedNames(file_index) :
            /\ ops' = Append(ops, Op("upload", FALSE, Flag(name = BlobName(file_index))))
            /\ blobs' = blobs \cup {[file |-> file_index, name |-> BlobName(file_index)]}
            /\ IF _name_missing(name)
               THEN /\ FileRaises(Exc("RuntimeError", "has no name attribute"))
                    /\ UNCHANGED uploaded_name
               ELSE /\ uploaded_name' = name
                    /\ pc' = "import"
                    /\ UNCHANGED <<error, outcome, file_index>>
    /\ UNCHANGED <<listVars, connVars, invoked, logged, stream_len, file_size_bytes, file_metadata,
                   empty_warning, chunk_count, buffer, file_content, operation, poll_attempts, current_interval,
                   slept, jobs, result, summary>>

\* The job handles the remote can answer with: done or not, and an error
\* field that is absent, present but None, present but empty, or a payload
\* (a pending job is drawn without the two falsy variants).
Operations ==
    {op \in [done : BOOLEAN, error : {"absent", "None", "", "X"}] :
        op.done \/ op.error \in {"absent", "X"}}

\* Mutant of Truthy: only None is falsy.
TruthyUnlessNone(value) == value # "None"

\* bool(operation.error) for an error attribute that is present.
Truthy(value) == value \notin {"None", ""}

\* What the log of remote operations keeps of a job handle: 0 not done; for
\* a done one, 1 error attribute absent, 2 error payload, 3 error None,
\* 4 error empty.
JobFlag(op) ==
    IF ~op.done THEN 0
    ELSE CASE op.error = "absent" -> 1
           [] op.error = "None" -> 3
           [] op.error = "" -> 4
           [] OTHER -> 2

\* handle_api_error: the RuntimeError built for a failed API call.
handle_api_error(operation_, exc, error_message) == Exc("RuntimeError", error_message)

\* Mutant of safe_execute_error: the exception is re-raised as it came.
safe_execute_error_unwrapped(operation_, exc, error_message) == exc

\* The except clause of safe_execute and of _poll_operation_status.
safe_execute_error(operation_, exc, error_message) ==
    IF IsInstance(exc, {"Exception"})
    THEN handle_api_error(operation_, exc, error_message)
    ELSE exc

\* Mutant of _poll_loop_continues: the attempt ceiling is missing.
_poll_loop_continues_unbounded(op, attempts) == ~op.done

\* Mutant of _poll_loop_continues: the loop body runs once before the test.
_poll_loop_continues_do_while(op, attempts) ==
    attempts = 0 \/ (~op.done /\ attempts < MAX_POLL_ATTEMPTS)

\* The loop condition of _wait_for_operation.
_poll_loop_continues(op, attempts) == ~op.done /\ attempts < MAX_POLL_ATTEMPTS

\* Mutant of _validate_operation_completion: the timeout is reported from
\* the initial interval.
_validate_operation_completion_initial_interval(op) ==
    IF ~op.done THEN Exc("TimeoutError", MAX_POLL_ATTEMPTS * INITIAL_POLL_INTERVAL)
    ELSE IF op.error # "absent" /\ op.error \notin {"None", ""}
    THEN Exc("RuntimeError", op.error)
    ELSE NoError

\* Mutant of _validate_operation_completion: the error attribute is tested
\* before done.
_validate_operation_completion_error_first(op) ==
    IF op.error # "absent" /\ op.error \notin {"None", ""}
    THEN Exc("RuntimeError", op.error)
    ELSE IF ~op.done
    THEN Exc("TimeoutError", MAX_POLL_ATTEMPTS * POLL_INTERVAL)
    ELSE NoError

\* Mutant of _validate_operation_completion: an error attribute that is
\* present counts as a failure even when it is None.
_validate_operation_completion_hasattr_only(op) ==
    IF ~op.done THEN Exc("TimeoutError", MAX_POLL_ATTEMPTS * POLL_INTERVAL)
    ELSE IF op.error # "absent"
    THEN Exc("RuntimeError", op.error)
    ELSE NoError

\* _validate_operation_completion: the error it raises (the RuntimeError
\* carries the job's error payload in its message), or NoError.
_validate_operation_completion(op) ==
    IF ~op.done THEN Exc("TimeoutError", MAX_POLL_ATTEMPTS * POLL_INTERVAL)
    ELSE IF op.error # "absent" /\ Truthy(op.error)
    THEN Exc("RuntimeError", op.error)
    ELSE NoError

\* Mutant of _calculate_next_poll_interval: the interval never grows.
_calculate_next_poll_interval_constant(attempts, interval) == interval

\* Mutant of _calculate_next_poll_interval: the cap is missing.
_calculate_next_poll_interval_uncapped(attempts, interval) ==
    IF attempts > 3
    THEN Rat(interval.num * 3, interval.den * 2)
    ELSE interval

\* _calculate_next_poll_interval, on exact rationals.
_calculate_next_poll_interval(attempts, interval) ==
    IF attempts > 3
    THEN IF interval.num * 3 < MAX_POLL_INTERVAL * interval.den * 2
         THEN Rat(interval.num * 3, interval.den * 2)
         ELSE Rat(MAX_POLL_INTERVAL, 1)
    ELSE interval

\* The locals of _process_file and of the download that polling leaves alone.
heldLocals == <<stream_len, file_size_bytes, file_metadata, empty_warning, chunk_count, buffer, file_content,
                uploaded_name, uploaded_content>>

\* Mutant of PollEnds: a loop that used up its attempts is a timeout, done
\* or not.
PollEndsTimeoutOnLastAttempt(op, attempts, interval) ==
    LET failed == IF attempts >= MAX_POLL_ATTEMPTS
                  THEN Exc("TimeoutError", MAX_POLL_ATTEMPTS * POLL_INTERVAL)
                  ELSE _validate_operation_completion(op)
    IN  IF failed # NoError
        THEN /\ FileRaises(failed)
             /\ operation' = op
             /\ poll_attempts' = attempts
             /\ current_interval' = interval
             /\ UNCHANGED heldLocals
        ELSE /\ FileSucceeds
             /\ stream_len' = 0
             /\ FileLocalsCleared

\* The end of _wait_for_operation and with it of _process_file: the job is
\* judged, and on success the file's locals go out of scope.
PollEnds(op, attempts, interval) ==
    LET failed == _validate_operation_completion(op)
    IN  IF failed # NoError
        THEN /\ FileRaises(failed)
             /\ operation' = op
             /\ poll_attempts' = attempts
             /\ current_interval' = interval
             /\ UNCHANGED heldLocals
        ELSE /\ FileSucceeds
             /\ stream_len' = 0
             /\ FileLocalsCleared

\* Mutant of PollGoesOn: the status is fetched again without a sleep.
PollGoesOnWithoutSleep(op, attempts, interval) ==
    /\ pc' = "poll"
    /\ operation' = op
    /\ poll_attempts' = attempts
    /\ current_interval' = interval
    /\ UNCHANGED <<error, outcome, file_index, heldLocals>>

\* One more turn of the poll loop.
PollGoesOn(op, attempts, interval) ==
    /\ pc' = "sleep"
    /\ operation' = op
    /\ poll_attempts' = attempts
    /\ current_interval' = interval
    /\ UNCHANGED <<error, outcome, file_index, heldLocals>>

\* import_file up to the first test of the poll loop.
import_file ==
    /\ pc = "import"
    /\ \/ \E failure \in GeminiFailures :
            /\ ops' = Append(ops, Op("import", TRUE, 0))
            /\ FileRaises(safe_execute_error("start importing file", failure,
                                             "Failed to start importing file"))
            /\ UNCHANGED <<operation, poll_attempts, current_interval, heldLocals, jobs>>
       \/ \E op \in Operations :
            /\ ops' = Append(ops, Op("import", FALSE, JobFlag(op)))
            /\ jobs' = jobs \cup {[file |-> file_index, file_name |-> uploaded_name,
                                   file_search_store_name |-> _store]}
            /\ IF _poll_loop_continues(op, 0)
               THEN PollGoesOn(op, 0, Rat(INITIAL_POLL_INTERVAL, 1))
               ELSE PollEnds(op, 0, Rat(INITIAL_POLL_INTERVAL, 1))
    /\ UNCHANGED <<listVars, connVars, invoked, logged, slept, blobs, result, summary>>

\* time.sleep(current_interval) in the poll loop.
time_sleep ==
    /\ pc = "sleep"
    /\ slept' = Append(slept, current_interval)
    /\ pc' = "poll"
    /\ UNCHANGED <<listVars, connVars, batchVars, heldLocals, operation, poll_attempts,
                   current_interval, ops, remoteVars, result, summary>>

\* The rest of one iteration of the poll loop: the status fetch, the attempt
\* counter, the next interval, and what follows the loop when it ends.
_poll_operation_status ==
    /\ pc = "poll"
    /\ \/ \E failure \in GeminiFailures :
            /\ ops' = Append(ops, Op("poll", TRUE, 0))
            /\ FileRaises(safe_execute_error("check operation status", failure,
                                             "Operation polling failed"))
            /\ UNCHANGED <<operation, poll_attempts, current_interval, heldLocals>>
       \/ \E op \in Operations :
            /\ ops' = Append(ops, Op("poll", FALSE, JobFlag(op)))
            /\ LET attempts == poll_attempts + 1
                   interval == _calculate_next_poll_interval(attempts, current_interval)
               IN  IF _poll_loop_continues(op, attempts)
                   THEN PollGoesOn(op, attempts, interval)
                   ELSE PollEnds(op, attempts, interval)
    /\ UNCHANGED <<listVars, connVars, invoked, logged, slept, remoteVars, result, summary>>

----------------------------------------------------------------------------
(* Drive client and credentials: connector.py, drive/client.py,           *)
(* drive/auth.py                                                          *)

\* The store created by GeminiFileStore.__init__ and kept in self._store.
_create_store == "fileSearchStores/1"

\* Python's None where the model needs a record.
None == [none |-> TRUE]

\* Credentials as get_service reads them: valid, expired, refresh_token
\* (truthy or not); valid credentials are not expired.
Credentials ==
    {c \in [valid : BOOLEAN, expired : BOOLEAN, refresh_token : BOOLEAN] :
        c.valid => ~c.expired}

\* Credentials after a refresh or an OAuth flow that returned.
FreshCredentials == [valid |-> TRUE, expired |-> FALSE, refresh_token |-> TRUE]

\* The token file: missing, not parsable, not readable, or holding
\* credentials.
TokenFiles ==
    {[kind |-> "missing"], [kind |-> "corrupted"], [kind |-> "unreadable"]} \cup
    {[kind |-> "token", creds |-> c] : c \in Credentials}

\* Folders of the runs made on one connector: empty, of one or two pages.
ConnFolders == {<< <<>> >>, << <<>>, <<>> >>}

\* How many of the steps taken so far are the given one.
CountEvents(name) == Cardinality({k \in 1..Len(events) : events[k] = name})

\* The connector as it is when its handler has been created on a first call
\* that found valid credentials in the token file.
ConnectorReady ==
    /\ _store = _create_store
    /\ _drive_client = 1
    /\ _service = 1
    /\ token_file = [kind |-> "token", creds |-> FreshCredentials]
    /\ creds = None
    /\ events = <<"sync", "DriveClient", "get_service", "valid", "service", "handler">>

\* The run state that a call of sync_folder_to_store starts from.
RunCleared ==
    /\ files' = <<>>
    /\ page_token' = 0
    /\ page_count' = 0
    /\ requests' = 0
    /\ page_warning' = FALSE
    /\ list_failure' = NoError
    /\ result' = Running

\* The caller calls sync_folder_to_store once more on the same connector.
call_sync_folder_to_store ==
    /\ pc = "done"
    /\ CountEvents("sync") < MaxCalls
    /\ pc' = "ready"
    /\ events' = Append(events, "sync")
    /\ folder_id' \in FolderIds
    /\ drive' \in ConnFolders
    /\ RunCleared
    /\ UNCHANGED <<batchVars, fileVars, remoteVars, summary, _store, _drive_client,
                   _service, token_file, creds>>

\* Mutant of _drive_client_missing: a client is created on every call.
_drive_client_missing_always(client) == TRUE

\* "if self._drive_client is None"
_drive_client_missing(client) == client = 0

\* _ensure_drive_client_initialized: DriveClient() when none is held; a new
\* client has no service yet.
_ensure_drive_client_initialized ==
    /\ pc = "ready"
    /\ IF _drive_client_missing(_drive_client)
       THEN /\ _drive_client' = CountEvents("DriveClient") + 1
            /\ _service' = 0
            /\ events' = Append(events, "DriveClient")
       ELSE UNCHANGED <<_drive_client, _service, events>>
    /\ pc' = "handler"
    /\ UNCHANGED <<listVars, batchVars, fileVars, remoteVars, result, summary, _store,
                   token_file, creds>>

\* Mutant of _service_missing: the cached service is never used.
_service_missing_always(service) == TRUE

\* DriveClient.service: "if self._service is None"
_service_missing(service) == service = 0

\* _create_file_handler, reading DriveClient.service: the cached service is
\* handed to the new handler, or get_service is called.
_create_file_handler ==
    /\ pc = "handler"
    /\ IF _drive_client = 0
       THEN /\ pc' = "done"
            /\ result' = Raised(Exc("RuntimeError", "Drive client must be initialized"))
            /\ UNCHANGED events
       ELSE IF _service_missing(_service)
       THEN /\ pc' = "load"
            /\ events' = Append(events, "get_service")
            /\ UNCHANGED result
       ELSE /\ pc' = "idle"
            /\ events' = Append(events, "handler")
            /\ UNCHANGED result
    /\ UNCHANGED <<listVars, batchVars, fileVars, remoteVars, summary, _store,
                   _drive_client, _service, token_file, creds>>

\* _refresh_credentials_if_needed: the credentials it returns, or None;
\* refreshed says whether creds.refresh returned or raised.
_refresh_credentials_if_needed(c, refreshed) ==
    IF ~(c.expired /\ c.refresh_token) THEN None
    ELSE IF refreshed THEN FreshCredentials
    ELSE None

\* Which way _load_or_refresh_credentials went with the credentials it
\* loaded, for the log of steps.
LoadCase(c, refreshed) ==
    CASE c.valid -> "valid"
      [] ~(c.expired /\ c.refresh_token) -> "not_refreshable"
      [] refreshed -> "refreshed"
      [] OTHER -> "refresh_failed"

\* _load_or_refresh_credentials, the first statement of get_service. A
\* corrupted token file is removed, unless os.remove raises OSError, which
\* is suppressed; an error of reading the file that is not one of the three
\* caught classes leaves get_service.
_load_or_refresh_credentials ==
    /\ pc = "load"
    /\ \E refreshed \in BOOLEAN, removed \in BOOLEAN :
          /\ CASE token_file.kind = "missing" ->
                     /\ events' = Append(events, "missing")
                     /\ creds' = None
                     /\ pc' = "check"
                     /\ UNCHANGED <<token_file, result>>
               [] token_file.kind = "unreadable" ->
                     /\ events' = Append(events, "unreadable")
                     /\ creds' = None
                     /\ pc' = "done"
                     /\ result' = Raised(Exc("PermissionError", "token file"))
                     /\ UNCHANGED token_file
               [] token_file.kind = "corrupted" ->
                     /\ events' = events \o <<"corrupted",
                                              IF removed THEN "removed"
                                              ELSE "remove_failed">>
                     /\ creds' = None
                     /\ token_file' = IF removed THEN [kind |-> "missing"] ELSE token_file
                     /\ pc' = "check"
                     /\ UNCHANGED result
               [] OTHER ->
                     /\ events' = Append(events, LoadCase(token_file.creds, refreshed))
                     /\ creds' = IF token_file.creds.valid THEN token_file.creds
                                 ELSE _refresh_credentials_if_needed(token_file.creds,
                                                                     refreshed)
                     /\ pc' = "check"
                     /\ UNCHANGED <<token_file, result>>
    /\ UNCHANGED <<listVars, batchVars, fileVars, remoteVars, summary, _store,
                   _drive_client, _service>>

\* Mutant of _needs_authentication: the OAuth flow is run in any case.
_needs_authentication_always(c) == TRUE

\* get_service: "if not creds or not creds.valid"
_needs_authentication(c) == "none" \in DOMAIN c \/ ~c.valid

\* get_service after loading: authenticate or go on with what was loaded.
get_service ==
    /\ pc = "check"
    /\ IF _needs_authentication(creds)
       THEN /\ pc' = "authenticate"
            /\ events' = Append(events, "authenticate")
       ELSE /\ pc' = "save"
            /\ UNCHANGED events
    /\ UNCHANGED <<listVars, batchVars, fileVars, remoteVars, result, summary, _store,
                   _drive_client, _service, token_file, creds>>

\* How a call of _authenticate can go: the client secrets file is missing,
\* is not JSON, or the OAuth flow raises or returns credentials.
AuthenticateCases == {"no_file", "bad_file", "flow_failed", "flow_returned"}

\* _authenticate: what it raises in the given case, or NoError.
_authenticate_error(case) ==
    CASE case = "no_file" -> Exc("FileNotFoundError", "Credentials file not found")
      [] case = "bad_file" -> Exc("ValueError", "Invalid credentials file format")
      [] case = "flow_failed" ->
             safe_execute_error("complete OAuth flow", Exc("ConnectionError", "oauth"),
                                "Failed to complete OAuth flow")
      [] OTHER -> NoError

_authenticate ==
    /\ pc = "authenticate"
    /\ \E case \in AuthenticateCases :
          /\ events' = IF case \in {"flow_failed", "flow_returned"}
                       THEN Append(events, "flow")
                       ELSE Append(events, case)
          /\ IF _authenticate_error(case) # NoError
             THEN /\ pc' = "done"
                  /\ result' = Raised(_authenticate_error(case))
                  /\ creds' = None
             ELSE /\ pc' = "save"
                  /\ creds' = FreshCredentials
                  /\ UNCHANGED result
    /\ UNCHANGED <<listVars, batchVars, fileVars, remoteVars, summary, _store,
                   _drive_client, _service, token_file>>

\* _save_token: the credentials are written to the token file, unless the
\* write raises OSError, which is logged only.
_save_token ==
    /\ pc = "save"
    /\ \E written \in BOOLEAN :
          token_file' = IF written THEN [kind |-> "token", creds |-> creds]
                        ELSE token_file
    /\ pc' = "build"
    /\ UNCHANGED <<listVars, batchVars, fileVars, remoteVars, result, summary, _store,
                   _drive_client, _service, creds, events>>

\* _build_service, the return of get_service into DriveClient._service, and
\* the handler made from it.
_build_service ==
    /\ pc = "build"
    /\ creds' = None
    /\ \/ /\ pc' = "done"
          /\ result' = Raised(safe_execute_error("initialize Drive service",
                                                 Exc("ConnectionError", "build"),
                                                 "Failed to initialize Drive service"))
          /\ UNCHANGED <<_service, events>>
       \/ /\ _service' = CountEvents("service") + 1
          /\ events' = events \o <<"service", "handler">>
          /\ pc' = "idle"
          /\ UNCHANGED result
    /\ UNCHANGED <<listVars, batchVars, fileVars, remoteVars, summary, _store,
                   _drive_client, token_file>>

InitCommon ==
    /\ pc = "idle"
    /\ folder_id \in FolderIds
    /\ files = <<>>
    /\ page_token = 0
    /\ page_count = 0
    /\ requests = 0
    /\ page_warning = FALSE
    /\ list_failure = NoError
    /\ file_index = 0
    /\ invoked = <<>>
    /\ outcome = <<>>
    /\ error = NoError
    /\ logged = "none"
    /\ result = Running
    /\ stream_len = 0
    /\ file_size_bytes = -1
    /\ file_metadata = NoMetadata
    /\ empty_warning = FALSE
    /\ chunk_count = 0
    /\ buffer = <<>>
    /\ file_content = <<>>
    /\ uploaded_name = 0
    /\ operation = NoOperation
    /\ poll_attempts = 0
    /\ current_interval = Rat(INITIAL_POLL_INTERVAL, 1)
    /\ uploaded_content = <<>>
    /\ ops = <<>>
    /\ slept = <<>>
    /\ blobs = {}
    /\ jobs = {}
    /\ summary = -1
    /\ ConnectorReady

\* The lister alone, on folders of up to one page more than the page ceiling.
InitList == InitCommon /\ drive \in ListFolders

NextList == list_files \/ _fetch_all_files

SpecList == InitList /\ [][NextList]_vars

\* One sync run over a folder of up to MaxFiles files.
Init == InitCommon /\ drive \in SyncFolders

Next ==
    \/ list_files
    \/ _fetch_all_files
    \/ sync_folder_to_store
    \/ _process_all_files
    \/ _process_file_safely_except
    \/ KeyboardInterrupt
    \/ _validate_file_size
    \/ _download_next_chunk
    \/ upload_file
    \/ import_file
    \/ time_sleep
    \/ _poll_operation_status

Spec == Init /\ [][Next]_vars

\* The import of one file alone: the run over a folder of one file, taken at
\* the call of import_file, after the file's one-chunk download and its
\* upload have succeeded; the blocking sleeps and remote calls return.
InitPoll ==
    /\ pc = "import"
    /\ folder_id = <<7, 0>>
    /\ drive = << <<Descriptor(<<1>>, "full")>> >>
    /\ files = <<Descriptor(<<1>>, "full")>>
    /\ page_token = 0
    /\ page_count = 0
    /\ requests = 1
    /\ page_warning = FALSE
    /\ list_failure = NoError
    /\ file_index = 1
    /\ invoked = <<1>>
    /\ outcome = <<"pending">>
    /\ error = NoError
    /\ logged = "none"
    /\ result = Running
    /\ stream_len = 1
    /\ file_size_bytes = -1
    /\ file_metadata = NoMetadata
    /\ empty_warning = FALSE
    /\ chunk_count = 0
    /\ buffer = <<Chunk(1, 1)>>
    /\ file_content = <<Chunk(1, 1)>>
    /\ uploaded_name = BlobName(1)
    /\ operation = NoOperation
    /\ poll_attempts = 0
    /\ current_interval = Rat(INITIAL_POLL_INTERVAL, 1)
    /\ uploaded_content = <<Chunk(1, 1)>>
    /\ ops = <<Op("metadata", FALSE, 0), Op("chunk", FALSE, 1), Op("upload", FALSE, 1)>>
    /\ slept = <<>>
    /\ blobs = {[file |-> 1, name |-> BlobName(1)]}
    /\ jobs = {}
    /\ summary = -1
    /\ ConnectorReady

NextPoll ==
    \/ import_file
    \/ time_sleep
    \/ _poll_operation_status
    \/ _process_file_safely_except
    \/ _process_all_files

SpecPoll == InitPoll /\ [][NextPoll]_vars /\ WF_vars(NextPoll)

\* A connector just constructed, on which sync_folder_to_store is called up
\* to MaxCalls times, with any token file and over empty folders.
InitConn ==
    /\ pc = "ready"
    /\ folder_id \in FolderIds
    /\ drive \in ConnFolders
    /\ files = <<>>
    /\ page_token = 0
    /\ page_count = 0
    /\ requests = 0
    /\ page_warning = FALSE
    /\ list_failure = NoError
    /\ file_index = 0
    /\ invoked = <<>>
    /\ outcome = <<>>
    /\ error = NoError
    /\ logged = "none"
    /\ result = Running
    /\ stream_len = 0
    /\ file_size_bytes = -1
    /\ file_metadata = NoMetadata
    /\ empty_warning = FALSE
    /\ chunk_count = 0
    /\ buffer = <<>>
    /\ file_content = <<>>
    /\ uploaded_name = 0
    /\ operation = NoOperation
    /\ poll_attempts = 0
    /\ current_interval = Rat(INITIAL_POLL_INTERVAL, 1)
    /\ uploaded_content = <<>>
    /\ ops = <<>>
    /\ slept = <<>>
    /\ blobs = {}
    /\ jobs = {}
    /\ summary = -1
    /\ _store = _create_store
    /\ _drive_client = 0
    /\ _service = 0
    /\ token_file \in TokenFiles
    /\ creds = None
    /\ events = <<"sync">>

NextConn ==
    \/ call_sync_folder_to_store
    \/ _ensure_drive_client_initialized
    \/ _create_file_handler
    \/ _load_or_refresh_credentials
    \/ get_service
    \/ _authenticate
    \/ _save_token
    \/ _build_service
    \/ list_files
    \/ _fetch_all_files
    \/ sync_folder_to_store

SpecConn == InitConn /\ [][NextConn]_vars

----------------------------------------------------------------------------
(* Properties                                                             *)

\* Whether the batch loop was entered: the listing returned files.
BatchEntered == Len(invoked) > 0

\* Every listed descriptor carries the id and name fields.
DescriptorsReadable ==
    \A i \in 1..Len(files) : {"id", "name"} \subseteq DOMAIN files[i]

\* The run was ended by a KeyboardInterrupt.
Interrupted == result.kind = "raised" /\ result.exc.cls = "KeyboardInterrupt"

\* No per-file pipeline stage has been invoked in this run.
NoStage ==
    /\ ops = <<>>
    /\ \A i \in 1..Len(invoked) : invoked[i] = 0
    /\ blobs = {}
    /\ jobs = {}
    /\ pc \notin {"size", "download", "upload", "import", "sleep", "poll", "except"}

\* The folder id is empty or whitespace only.
BlankFolderId == \A i \in 1..Len(folder_id) : folder_id[i] = 0

\* C1: batch failure isolation. Whatever subset of the listed files fails,
\* and at whatever stage of the pipeline, a run that is not interrupted
\* invokes the per-file pipeline exactly once for every listed (readable)
\* descriptor and returns normally.
C1_BatchFailureIsolation ==
    /\ \A i \in 1..Len(invoked) : invoked[i] <= 1
    /\ (pc = "done" /\ BatchEntered /\ DescriptorsReadable /\ ~Interrupted) =>
           /\ result = Returned
           /\ \A i \in 1..Len(files) :
                  invoked[i] = 1 /\ outcome[i] \in {"ok", "skipped"}

\* C1 witness: three files, the second failed, the run returned.
C1_Witness ==
    pc = "done" /\ result = Returned /\ outcome = <<"ok", "skipped", "ok">>

\* C2 (as claimed): once the batch loop is entered, no error of a file is
\* surfaced to the caller of sync_folder_to_store, errors of reading the
\* descriptor's id and name included; only an interrupt ends the run early.
C2_NoPerFileErrorSurfaces ==
    (BatchEntered /\ result.kind = "raised") => Interrupted

Rank(name) ==
    CASE name = "metadata" -> 1
      [] name = "chunk" -> 2
      [] name = "upload" -> 3
      [] name = "import" -> 4
      [] name = "poll" -> 5

\* The stage whose last operation is entry ended successfully, so that the
\* next stage may start.
StageSucceeded(entry) ==
    /\ ~entry.failed
    /\ CASE entry.op = "metadata" -> entry.flag = 0
         [] entry.op = "chunk" -> entry.flag = 1
         [] entry.op = "upload" -> entry.flag = 1
         [] entry.op = "import" -> entry.flag = 0
         [] OTHER -> FALSE

\* C3: per-file stage ordering. The remote operations of one file occur in
\* the order metadata fetch, chunk requests, upload, import start, status
\* polls; a stage starts only right after the stage before it succeeded, and
\* a chunk request or a poll is repeated only while the one before it
\* returned without completing.
C3_StageOrdering ==
    \A k \in 1..Len(ops) :
        IF k = 1 THEN ops[k].op = "metadata"
        ELSE \/ /\ ops[k].op = ops[k - 1].op
                /\ ops[k].op \in {"chunk", "poll"}
                /\ ~ops[k - 1].failed
                /\ ops[k - 1].flag = 0
             \/ /\ Rank(ops[k].op) = Rank(ops[k - 1].op) + 1
                /\ StageSucceeded(ops[k - 1])

\* C3 witness: a file went through all five stages and was indexed after
\* more than one poll.
C3_Witness ==
    /\ pc = "loop"
    /\ file_index > 1
    /\ outcome[file_index - 1] = "ok"
    /\ Len(ops) > 5
    /\ ops[Len(ops)] = Op("poll", FALSE, 1)
    /\ ops[Len(ops) - 1] = Op("poll", FALSE, 0)

\* C4: files are processed one at a time in listing order. The listing is
\* the remote's pages in order; every file before the loop position has a
\* terminal outcome, every file after it is untouched, so at most one
\* pipeline is in progress and remote artefacts belong to files up to the
\* loop position only.
C4_OneFileAtATime ==
    BatchEntered =>
        /\ files = Flatten(drive)
        /\ \A i \in 1..Len(files) :
               /\ i < file_index => outcome[i] \in {"ok", "skipped"} /\ invoked[i] = 1
               /\ i = file_index => outcome[i] = "pending"
               /\ i > file_index => outcome[i] = "pending" /\ invoked[i] = 0
        /\ pc \in {"size", "download", "upload", "import", "sleep", "poll", "except"} =>
               file_index \in 1..Len(files) /\ invoked[file_index] = 1
        /\ Cardinality({i \in 1..Len(files) :
                           invoked[i] = 1 /\ outcome[i] = "pending"}) <= 1
        /\ \A b \in blobs \cup jobs : b.file <= file_index
        /\ \A k \in 1..Len(buffer) : buffer[k][1] = file_index

\* C4 witness: the second file is being polled after the first was skipped
\* and while the third is untouched.
C4_Witness ==
    /\ pc = "poll"
    /\ Len(files) = 3
    /\ file_index = 2
    /\ outcome = <<"skipped", "pending", "pending">>
    /\ invoked = <<1, 1, 0>>

\* C5: an empty listing makes sync_folder_to_store return successfully at
\* once, and no pipeline stage is invoked in that run.
C5_EmptyListingReturns ==
    /\ [](files = <<>> => NoStage)
    /\ [][(pc = "listed" /\ files = <<>>) =>
              (pc' = "done" /\ result' = Returned /\ NoStage')]_vars

\* C5 witness: the listing was fetched, was empty, and the run returned.
C5_Witness ==
    /\ pc = "done"
    /\ result = Returned
    /\ files = <<>>
    /\ requests = 1
    /\ list_failure = NoError

\* C6: an error raised by listing propagates out of sync_folder_to_store as
\* one of InvalidArgument, NotFound, PermissionDenied, RemoteFailure, and no
\* per-file pipeline stage is invoked in that run.
C6_ListingErrorPropagates ==
    /\ list_failure # NoError =>
           /\ pc = "done"
           /\ result.kind = "raised"
           /\ result.exc.cls \in {"FileNotFoundError", "PermissionError", "RuntimeError"}
           /\ NoStage
    /\ (BlankFolderId /\ pc # "idle") =>
           /\ pc = "done"
           /\ result.kind = "raised"
           /\ result.exc.cls = "ValueError"
           /\ NoStage

\* C6 witness: the second page request was refused with a 403 and the run
\* ended with PermissionError.
C6_Witness ==
    /\ list_failure = HttpError(403)
    /\ requests = 2
    /\ pc = "done"
    /\ result.kind = "raised"
    /\ result.exc.cls = "PermissionError"

\* C7: a listing of N pages with N below the page ceiling is returned as the
\* exact concatenation of the pages' file lists, in page order.
C7_ExactConcatenation ==
    (pc = "listed" /\ Len(drive) < _get_max_pages) => files = Flatten(drive)

\* C7 witness: a listing of one page less than the ceiling, with more files
\* than pages, was returned.
C7_Witness ==
    /\ pc = "listed"
    /\ Len(drive) = _get_max_pages - 1
    /\ Len(files) > Len(drive)

\* C8 (as claimed): when the page ceiling is hit, the result is non-empty and
\* made of the files of the pages fetched so far.
C8_NonEmptyPartialResult ==
    (pc = "listed" /\ Len(drive) > _get_max_pages) =>
        /\ files # <<>>
        /\ files = Flatten(SubSeq(drive, 1, _get_max_pages))

\* C8 (amended): when the page ceiling is hit, list_files does not fail; it
\* returns, with the warning, the files of the pages fetched so far, which
\* are exactly the first _get_max_pages pages - an empty result when all of
\* them were empty. Nothing but a failed page request or a blank folder id
\* makes the lister raise.
C8_PartialResult ==
    /\ (pc = "listed" /\ Len(drive) > _get_max_pages) =>
           /\ files = Flatten(SubSeq(drive, 1, _get_max_pages))
           /\ requests = _get_max_pages
           /\ page_warning
           /\ result.kind # "raised"
    /\ (result.kind = "raised" /\ ~BatchEntered) =>
           (list_failure # NoError \/ BlankFolderId)

\* C8 witness: the remote had one page more than the ceiling and a non-empty
\* partial result was returned with the warning.
C8_Witness ==
    /\ pc = "listed"
    /\ Len(drive) = _get_max_pages + 1
    /\ files # <<>>
    /\ page_warning

\* C9 (as claimed): a blank folder id fails with ValueError before any
\* request; a 404 gives FileNotFoundError, a 403 PermissionError, and every
\* other error raised while listing surfaces as RuntimeError.
C9_ListErrorTaxonomy ==
    /\ (BlankFolderId /\ pc # "idle") =>
           result.kind = "raised" /\ result.exc.cls = "ValueError" /\ requests = 0
    /\ list_failure = HttpError(404) => result.exc.cls = "FileNotFoundError"
    /\ list_failure = HttpError(403) => result.exc.cls = "PermissionError"
    /\ list_failure \notin {NoError, HttpError(404), HttpError(403)} =>
           result.exc.cls = "RuntimeError"

\* C10: size guard threshold. With S the size the remote reports, the guard
\* raises ValueError (too large) when S / 1MB > MAX_FILE_SIZE_MB and lets the
\* download start otherwise; S = 0 passes with the empty-file warning.
C10_SizeGuardThreshold ==
    file_size_bytes # -1 =>
        IF file_size_bytes > MAX_FILE_SIZE_MB * BYTES_PER_MB
        THEN pc = "except" /\ error = Exc("ValueError", "too large")
        ELSE /\ pc = "download"
             /\ error = NoError
             /\ empty_warning = (file_size_bytes = 0)

\* C10 witness: a file of exactly MAX_FILE_SIZE_MB megabytes passed the guard.
C10_Witness ==
    /\ file_size_bytes = MAX_FILE_SIZE_MB * BYTES_PER_MB
    /\ pc = "download"
    /\ chunk_count = 0

\* The last entry of the log of remote operations of the file in hand.
LastOp == ops[Len(ops)]

\* How many entries of the log are requests of the given stage.
CountOps(name) == Cardinality({k \in 1..Len(ops) : ops[k].op = name})

\* The file the log of remote operations belongs to: the file in hand, or
\* the file just finished when the loop has moved on or ended.
LoggedFile == IF pc \in {"loop", "done"} THEN file_index - 1 ELSE file_index

\* The file of the log was skipped by the handler with the given log level.
SkippedWith(level) ==
    /\ pc \in {"loop", "done"}
    /\ outcome[LoggedFile] = "skipped"
    /\ logged = level

\* Chunks 1..k of a file's stream, concatenated.
ChunksUpTo(file, k) == [i \in 1..k |-> <<file, i>>]

\* C11: chunked downloader outcome. A stream that reports completion on
\* chunk k, 1 <= k <= _get_max_chunks, yields exactly chunks 1..k; a stream
\* that has not reported completion after _get_max_chunks chunk requests
\* fails with ValueError (download exceeded size limit) and yields nothing,
\* and that error has no other cause.
C11_ChunkedDownloaderOutcome ==
    /\ file_content # <<>> =>
           /\ stream_len \in 1.._get_max_chunks
           /\ file_content = ChunksUpTo(file_index, stream_len)
    /\ pc = "upload" => file_content # <<>>
    /\ (stream_len > _get_max_chunks
        /\ CountOps("chunk") = _get_max_chunks
        /\ ~LastOp.failed) =>
           /\ pc = "except"
           /\ error = Exc("ValueError", "exceeded size limit")
           /\ file_content = <<>>
    /\ (pc = "except" /\ error.cls = "ValueError"
        /\ error.msg = "exceeded size limit") =>
           stream_len > _get_max_chunks /\ CountOps("chunk") = _get_max_chunks

\* C11 witness: a stream that completed exactly on the last allowed chunk was
\* returned whole.
C11_Witness ==
    /\ pc = "upload"
    /\ stream_len = _get_max_chunks
    /\ Len(file_content) = _get_max_chunks

\* C12: import poller outcomes. A job answered as done without an error ends
\* the poll with success; done with error X ends it with RuntimeError
\* carrying X; not done after MAX_POLL_ATTEMPTS status fetches ends it with
\* TimeoutError; a job not done after fewer fetches keeps the poll going.
C12_ImportPollerOutcomes ==
    /\ CountOps("poll") <= MAX_POLL_ATTEMPTS
    /\ (ops # <<>> /\ LastOp.op \in {"import", "poll"} /\ ~LastOp.failed) =>
           CASE LastOp.flag \in {1, 3, 4} ->
                    pc \in {"loop", "done"} /\ outcome[LoggedFile] = "ok"
             [] LastOp.flag = 2 ->
                    \/ pc = "except" /\ error = Exc("RuntimeError", "X")
                    \/ SkippedWith("exception")
             [] OTHER ->
                    IF CountOps("poll") < MAX_POLL_ATTEMPTS
                    THEN pc \in {"sleep", "poll"}
                    ELSE \/ pc = "except" /\ error.cls = "TimeoutError"
                         \/ SkippedWith("error")

\* C12 witness: a job still not done at the last allowed status fetch ended
\* the poll with TimeoutError.
C12_Witness ==
    /\ pc = "except"
    /\ error.cls = "TimeoutError"
    /\ CountOps("poll") = MAX_POLL_ATTEMPTS
    /\ LastOp = Op("poll", FALSE, 0)

\* Equality and order of two exact rationals.
RatEq(a, b) == a.num * b.den = b.num * a.den
RatLeq(a, b) == a.num * b.den <= b.num * a.den

\* The interval the claim gives for the sleep before status fetch n.
RECURSIVE ClaimedInterval(_)
ClaimedInterval(n) ==
    IF n <= 3 THEN Rat(INITIAL_POLL_INTERVAL, 1)
    ELSE LET previous == ClaimedInterval(n - 1)
         IN  IF previous.num * 3 < MAX_POLL_INTERVAL * previous.den * 2
             THEN Rat(previous.num * 3, previous.den * 2)
             ELSE Rat(MAX_POLL_INTERVAL, 1)

\* C13 (as claimed): the interval slept before status fetches 1 to 3 is
\* INITIAL_POLL_INTERVAL and from fetch 4 on it is min(previous * 1.5,
\* MAX_POLL_INTERVAL): 1, 1, 1, 1.5, 2.25, 3.375 before fetches 1..6.
C13_BackoffSchedule ==
    \A n \in 1..Len(slept) : RatEq(slept[n], ClaimedInterval(n))

\* C14: backoff invariant. The intervals slept in one poll run start at
\* INITIAL_POLL_INTERVAL, never decrease, stay within INITIAL_POLL_INTERVAL
\* and MAX_POLL_INTERVAL, and stay at the cap once they reach it.
C14_BackoffInvariant ==
    /\ slept # <<>> => RatEq(slept[1], Rat(INITIAL_POLL_INTERVAL, 1))
    /\ \A n \in 1..Len(slept) :
           /\ RatLeq(Rat(INITIAL_POLL_INTERVAL, 1), slept[n])
           /\ RatLeq(slept[n], Rat(MAX_POLL_INTERVAL, 1))
    /\ \A n \in 1..(Len(slept) - 1) :
           /\ RatLeq(slept[n], slept[n + 1])
           /\ RatEq(slept[n], Rat(MAX_POLL_INTERVAL, 1)) =>
                  RatEq(slept[n + 1], Rat(MAX_POLL_INTERVAL, 1))

\* C14 witness: a poll run slept MAX_POLL_ATTEMPTS times, went through an
\* interval strictly between the two limits and ended at the cap.
C14_Witness ==
    /\ Len(slept) = MAX_POLL_ATTEMPTS
    /\ RatEq(slept[MAX_POLL_ATTEMPTS], Rat(MAX_POLL_INTERVAL, 1))
    /\ \E n \in 1..Len(slept) :
           /\ ~RatLeq(slept[n], Rat(INITIAL_POLL_INTERVAL, 1))
           /\ ~RatLeq(Rat(MAX_POLL_INTERVAL, 1), slept[n])

\* C15: a failed status fetch is fatal at once. It is the last remote
\* operation of its file, it surfaces as RuntimeError (operation polling
\* failed) whatever the client raised, and no sleep follows it.
C15_PollFailureIsFatal ==
    \A k \in 1..Len(ops) :
        (ops[k].op = "poll" /\ ops[k].failed) =>
            /\ k = Len(ops)
            /\ Len(slept) = CountOps("poll")
            /\ \/ pc = "except"
                  /\ error = Exc("RuntimeError", "Operation polling failed")
               \/ SkippedWith("exception")

\* C15 witness: the third status fetch of a job failed after two that
\* answered.
C15_Witness ==
    /\ pc = "except"
    /\ CountOps("poll") = 3
    /\ LastOp = Op("poll", TRUE, 0)
    /\ error.cls = "RuntimeError"

\* C16: a failed chunk request aborts the download at once. It is the last
\* remote operation of its file, it surfaces as RuntimeError (failed to
\* download file) whatever was raised, a 404 or 403 HttpError included, and
\* no content is returned, uploaded or stored for the file.
C16_ChunkErrorAborts ==
    \A k \in 1..Len(ops) :
        (ops[k].op = "chunk" /\ ops[k].failed) =>
            /\ k = Len(ops)
            /\ file_content = <<>>
            /\ uploaded_content = <<>>
            /\ \A b \in blobs : b.file # LoggedFile
            /\ \/ pc = "except"
                  /\ error = Exc("RuntimeError", "Failed to download file")
               \/ SkippedWith("exception")

\* C16 witness: the second chunk request of a download failed.
C16_Witness ==
    /\ pc = "except"
    /\ Len(buffer) = 1
    /\ CountOps("chunk") = 2
    /\ LastOp = Op("chunk", TRUE, 0)
    /\ error.cls = "RuntimeError"

\* The upload of the file of the log answered with an empty or None name.
NameMissing == ops # <<>> /\ LastOp = Op("upload", FALSE, 0)

\* C17: an upload answered with an empty or None blob name fails its file
\* with RuntimeError (has no name attribute); no import job is started for
\* the file, the file is skipped, and the batch still completes.
C17_MissingBlobName ==
    NameMissing =>
        /\ \A j \in jobs : j.file # LoggedFile
        /\ \/ pc = "except"
              /\ error = Exc("RuntimeError", "has no name attribute")
           \/ SkippedWith("exception")
        /\ (pc = "done" /\ DescriptorsReadable) =>
               /\ result = Returned
               /\ \A i \in 1..Len(files) : outcome[i] \in {"ok", "skipped"}

\* C17 witness: the last of two files was skipped for its missing blob name
\* and the run returned.
C17_Witness ==
    /\ NameMissing
    /\ pc = "done"
    /\ result = Returned
    /\ outcome = <<"ok", "skipped">>

\* C18: a KeyboardInterrupt during any stage of any file is not absorbed by
\* the per-file boundary: it leaves sync_folder_to_store, the file in hand
\* gets no outcome, no later file is invoked, and nothing happens afterwards.
C18_InterruptTerminatesBatch ==
    /\ [][KeyboardInterrupt =>
              /\ pc' = "done"
              /\ result' = Raised(Exc("KeyboardInterrupt", pc))
              /\ outcome' = outcome
              /\ invoked' = invoked
              /\ file_index' = file_index]_vars
    /\ [](Interrupted =>
              /\ pc = "done"
              /\ \A i \in 1..Len(files) :
                     i >= file_index => outcome[i] = "pending"
              /\ \A i \in 1..Len(files) :
                     i > file_index => invoked[i] = 0)
    /\ [][~Interrupted]_vars

\* C18 witness: the interrupt arrived during a poll sleep of the second of
\* three files; the third was never invoked.
C18_Witness ==
    /\ Interrupted
    /\ result.exc.msg = "sleep"
    /\ file_index = 2
    /\ outcome = <<"ok", "pending", "pending">>
    /\ invoked = <<1, 1, 0>>

\* C19: no automatic retry. For each file the metadata fetch, the upload and
\* the import start are issued at most once; the one download requests each
\* chunk once, in order, up to the chunk ceiling; nothing is issued after a
\* failed call; no file is invoked twice. Only the status fetch repeats.
C19_NoAutomaticRetry ==
    /\ CountOps("metadata") <= 1
    /\ CountOps("upload") <= 1
    /\ CountOps("import") <= 1
    /\ CountOps("chunk") <= _get_max_chunks
    /\ \A k \in 1..Len(buffer) : buffer[k] = <<file_index, k>>
    /\ \A k \in 1..Len(ops) : ops[k].failed => k = Len(ops)
    /\ \A i \in 1..Len(invoked) : invoked[i] <= 1

\* C19 witness: the import start of a file failed after one metadata fetch,
\* one chunk and one upload, and the file was skipped.
C19_Witness ==
    /\ ops = <<Op("metadata", FALSE, 0), Op("chunk", FALSE, 1),
               Op("upload", FALSE, 1), Op("import", TRUE, 0)>>
    /\ SkippedWith("exception")

\* C20: no rollback. The sets of remote blobs and of started jobs only grow
\* during a run; after a successful upload the file's blob is in place, and
\* after a successful import start its job is, whatever fails later.
C20_NoRollback ==
    /\ [][blobs \subseteq blobs' /\ jobs \subseteq jobs']_vars
    /\ [](\A k \in 1..Len(ops) :
              /\ (ops[k].op = "upload" /\ ~ops[k].failed) =>
                     \E b \in blobs : b.file = LoggedFile
              /\ (ops[k].op = "import" /\ ~ops[k].failed) =>
                     \E j \in jobs : j.file = LoggedFile)

\* C20 witness: the first file was skipped because its job ended with an
\* error, and its blob and job are still there.
C20_Witness ==
    /\ pc = "loop"
    /\ file_index = 2
    /\ outcome[1] = "skipped"
    /\ ops # <<>>
    /\ LastOp.op = "poll"
    /\ LastOp.flag = 2
    /\ \E b \in blobs : b.file = 1
    /\ \E j \in jobs : j.file = 1

\* The poll of the file in hand has ended.
PollEnded == pc \notin {"import", "sleep", "poll"}

\* The last remote operation of the file is an import start or a status
\* fetch that returned a job handle.
HandleReturned ==
    ops # <<>> /\ LastOp.op \in {"import", "poll"} /\ ~LastOp.failed

\* The file of the log ended in success.
FileOk == pc \in {"loop", "done"} /\ outcome[LoggedFile] = "ok"

\* The file of the log ended with RuntimeError carrying the job's payload.
ImportFailed ==
    \/ pc = "except" /\ error = Exc("RuntimeError", "X")
    \/ SkippedWith("exception")

\* The poll is at its TimeoutError.
TimedOut == pc = "except" /\ error.cls = "TimeoutError"

\* C21: on timeout the poller reports MAX_POLL_ATTEMPTS * POLL_INTERVAL
\* seconds, 180 with the defaults, and nothing computed from the sleeps.
C21_TimeoutReportsNominalSeconds ==
    TimedOut =>
        /\ error.msg = MAX_POLL_ATTEMPTS * POLL_INTERVAL
        /\ error.msg = 180

\* C21 witness: a timeout after all the sleeps of a poll run.
C21_Witness == TimedOut /\ Len(slept) = MAX_POLL_ATTEMPTS

\* C22 (as claimed): a failed metadata fetch of the size guard surfaces as
\* FileNotFoundError, PermissionError or RuntimeError and as nothing else.
C22_MetadataErrorTaxonomy ==
    (ops # <<>> /\ LastOp = Op("metadata", TRUE, 0) /\ pc = "except") =>
        error.cls \in {"FileNotFoundError", "PermissionError", "RuntimeError"}

\* C23: the import poller always terminates. Whatever the remote job does,
\* the poll ends; it issues at most MAX_POLL_ATTEMPTS status fetches; it has
\* ended as soon as a handle with done = true was returned; and it ends in
\* success, RuntimeError or TimeoutError.
C23_PollerTerminates ==
    /\ <>PollEnded
    /\ [](CountOps("poll") <= MAX_POLL_ATTEMPTS)
    /\ []((HandleReturned /\ LastOp.flag # 0) => PollEnded)
    /\ [](pc = "except" => error.cls \in {"RuntimeError", "TimeoutError"})

\* C23 witness: a poll run that used every status fetch and ended, its file
\* skipped and the run returned.
C23_Witness ==
    /\ pc = "done"
    /\ result = Returned
    /\ CountOps("poll") = MAX_POLL_ATTEMPTS
    /\ outcome = <<"skipped">>

\* C24: sleep-then-fetch ordering. Each status fetch comes right after one
\* sleep of the current interval: the sleeps number the fetches issued, plus
\* the one sleep whose fetch is about to be issued; the attempt counter is
\* the number of fetches that returned.
C24_SleepThenFetch ==
    /\ Len(slept) = CountOps("poll") + (IF pc = "poll" THEN 1 ELSE 0)
    /\ pc = "poll" => RatEq(slept[Len(slept)], current_interval)
    /\ pc \in {"sleep", "poll", "except"} =>
           poll_attempts =
               Cardinality({k \in 1..Len(ops) : ops[k].op = "poll" /\ ~ops[k].failed})

\* C24 witness: the third sleep is over and its fetch is about to be issued.
C24_Witness ==
    /\ pc = "poll"
    /\ Len(slept) = 3
    /\ CountOps("poll") = 2

\* C25: a job answered as done on status fetch number MAX_POLL_ATTEMPTS is
\* judged by its error field; TimeoutError is raised only when that fetch
\* still answered not done.
C25_DoneOnLastFetch ==
    /\ (TimedOut \/ SkippedWith("error")) =>
           /\ CountOps("poll") = MAX_POLL_ATTEMPTS
           /\ LastOp = Op("poll", FALSE, 0)
    /\ (HandleReturned /\ CountOps("poll") = MAX_POLL_ATTEMPTS /\ LastOp.flag # 0) =>
           IF LastOp.flag = 2 THEN ImportFailed ELSE FileOk

\* C25 witness: the last allowed status fetch answered done and the file
\* succeeded.
C25_Witness ==
    /\ CountOps("poll") = MAX_POLL_ATTEMPTS
    /\ LastOp = Op("poll", FALSE, 1)
    /\ FileOk

\* C26: a handle that import start returns already done is judged at once:
\* no sleep, no status fetch, success or RuntimeError by its error field.
C26_HandleAlreadyDone ==
    \A k \in 1..Len(ops) :
        (ops[k].op = "import" /\ ~ops[k].failed /\ ops[k].flag # 0) =>
            /\ k = Len(ops)
            /\ slept = <<>>
            /\ PollEnded
            /\ IF ops[k].flag = 2 THEN ImportFailed ELSE FileOk

\* C26 witness: import start returned a handle done with an error payload.
C26_Witness ==
    /\ ops # <<>>
    /\ LastOp = Op("import", FALSE, 2)
    /\ pc = "except"
    /\ slept = <<>>

\* C27: an error field on a job that is not done neither ends the poll nor
\* gives RuntimeError: while fetches remain the poll goes on, and after the
\* last one the outcome is TimeoutError, error field or not.
C27_ErrorOnPendingJobIgnored ==
    /\ pc \in {"sleep", "poll"} => ~operation.done
    /\ (HandleReturned /\ LastOp.flag = 0) =>
           IF CountOps("poll") < MAX_POLL_ATTEMPTS
           THEN pc \in {"sleep", "poll"}
           ELSE TimedOut \/ SkippedWith("error")
    /\ (HandleReturned /\ pc = "except" /\ ~operation.done) => TimedOut

\* C27 witness: a job still not done at the last fetch, with its error field
\* set, timed out.
C27_Witness ==
    /\ TimedOut
    /\ operation = [done |-> FALSE, error |-> "X"]

\* C28: for a done job an error attribute that is absent, None or empty is
\* success alike; only a truthy error gives RuntimeError.
C28_FalsyErrorIsSuccess ==
    HandleReturned =>
        /\ LastOp.flag \in {1, 3, 4} => FileOk /\ logged = "none"
        /\ (pc = "except" /\ error.cls = "RuntimeError") => LastOp.flag = 2
        /\ SkippedWith("exception") => LastOp.flag = 2

\* C28 witness: a status fetch answered done with an empty error and the
\* file succeeded.
C28_Witness ==
    /\ ops # <<>>
    /\ LastOp = Op("poll", FALSE, 4)
    /\ FileOk

\* The first n sleeps added up, in units of 1/1024 second; exact when every
\* denominator divides 1024.
RECURSIVE SleptUnits(_)
SleptUnits(n) ==
    IF n = 0 THEN 0
    ELSE (slept[n].num * 1024) \div slept[n].den + SleptUnits(n - 1)

\* C29: a poll run that times out has gone through the growing intervals,
\* and the total it slept is strictly more than the reported
\* MAX_POLL_ATTEMPTS * POLL_INTERVAL seconds.
C29_TimeoutTotalExceedsReported ==
    TimedOut =>
        /\ \E n \in 1..Len(slept) : ~RatLeq(slept[n], Rat(INITIAL_POLL_INTERVAL, 1))
        /\ \A n \in 1..Len(slept) : 1024 % slept[n].den = 0
        /\ SleptUnits(Len(slept)) > MAX_POLL_ATTEMPTS * POLL_INTERVAL * 1024

\* C29 witness: a timeout whose last sleep was at the cap.
C29_Witness ==
    /\ TimedOut
    /\ slept # <<>>
    /\ RatEq(slept[Len(slept)], Rat(MAX_POLL_INTERVAL, 1))

\* C30: the lister issues at most _get_max_pages page requests and every
\* step of its loop is one more request, so it terminates; the warning is
\* logged exactly when the last allowed page still carried a cursor, and a
\* listing of exactly _get_max_pages pages is returned whole, unwarned.
C30_PageCeiling ==
    /\ [](requests <= _get_max_pages)
    /\ [][pc = "listing" => requests' = requests + 1]_vars
    /\ [](pc = "listing" => ~page_warning)
    /\ [](pc = "listed" => (page_warning <=> Len(drive) > _get_max_pages))
    /\ []((pc = "listed" /\ Len(drive) = _get_max_pages) =>
              /\ files = Flatten(drive)
              /\ requests = _get_max_pages
              /\ ~page_warning)

\* C30 witness: a listing of exactly _get_max_pages pages came back without
\* the warning.
C30_Witness ==
    /\ pc = "listed"
    /\ Len(drive) = _get_max_pages
    /\ requests = _get_max_pages
    /\ files # <<>>
    /\ ~page_warning

\* C31: a failed request for page k makes list_files raise and return no
\* file: the files of pages 1..k-1 are dropped, request k is the last one of
\* the run, and the batch loop is not entered. A listing that is not the
\* whole folder is returned only when the page ceiling was hit.
C31_ListFailureDiscardsAll ==
    /\ list_failure # NoError =>
           /\ pc = "done"
           /\ result.kind = "raised"
           /\ files = <<>>
           /\ requests = page_count + 1
           /\ ~BatchEntered
    /\ (pc = "listed" /\ files # Flatten(drive)) =>
           /\ list_failure = NoError
           /\ page_warning
           /\ Len(drive) > _get_max_pages

\* C31 witness: the third page request failed after two pages that carried
\* files, and nothing was returned.
C31_Witness ==
    /\ list_failure # NoError
    /\ requests = 3
    /\ page_count = 2
    /\ drive[1] # <<>>
    /\ drive[2] # <<>>
    /\ files = <<>>
    /\ pc = "done"

\* C32: the chunked downloader issues at most _get_max_chunks chunk requests
\* for a file and every turn of its loop is one more request, so it
\* terminates; when request number _get_max_chunks has not completed the
\* stream it stops and fails with ValueError (exceeded size limit), so a
\* stream that would complete only one chunk later yields no content.
C32_ChunkCeiling ==
    /\ [](CountOps("chunk") <= _get_max_chunks)
    /\ [][(pc = "download" /\ pc' = "download") =>
              /\ CountOps("chunk")' = CountOps("chunk") + 1
              /\ chunk_count' = chunk_count + 1]_vars
    /\ [](pc = "download" =>
              CountOps("chunk") = chunk_count /\ chunk_count < _get_max_chunks)
    /\ []((ops # <<>> /\ LastOp = Op("chunk", FALSE, 0)
            /\ CountOps("chunk") = _get_max_chunks) =>
              \/ pc = "except" /\ error = Exc("ValueError", "exceeded size limit")
              \/ SkippedWith("error"))
    /\ [](stream_len > _get_max_chunks =>
              /\ pc \notin {"upload", "import", "sleep", "poll"}
              /\ file_content = <<>>
              /\ uploaded_content = <<>>)

\* C32 witness: a stream that would complete on chunk _get_max_chunks + 1 was
\* cut off after _get_max_chunks requests and its file skipped.
C32_Witness ==
    /\ stream_len = _get_max_chunks + 1
    /\ pc = "except"
    /\ error = Exc("ValueError", "exceeded size limit")
    /\ CountOps("chunk") = _get_max_chunks
    /\ Len(buffer) = _get_max_chunks

\* The metadata response in hand carries no size field.
SizeMissing == "unset" \notin DOMAIN file_metadata /\ "size" \notin DOMAIN file_metadata

\* C33: a metadata response without a size field is taken as size 0: the
\* guard logs the empty-file warning and passes, the download starts, and
\* from then on the only size limit applied to the file is the chunk
\* ceiling.
C33_MissingSizeIsZero ==
    /\ SizeMissing =>
           /\ file_size_bytes = 0
           /\ empty_warning
           /\ pc = "download"
           /\ error = NoError
           /\ ops = <<Op("metadata", FALSE, 0)>>
    /\ (ops # <<>> /\ LastOp.op = "chunk" /\ pc = "except" /\ error.cls = "ValueError") =>
           /\ error.msg = "exceeded size limit"
           /\ CountOps("chunk") = _get_max_chunks
           /\ stream_len > _get_max_chunks

\* C33 witness: a file whose metadata has no size field and whose stream is
\* longer than the chunk ceiling passed the guard and starts its download.
C33_Witness ==
    /\ SizeMissing
    /\ pc = "download"
    /\ stream_len = _get_max_chunks + 1
    /\ empty_warning

\* C34: the end-of-run summary is logged exactly when the listing was not
\* empty and the batch loop ran to its end, and its count is the number of
\* files listed, however many of them were skipped.
C34_SummaryCount ==
    /\ summary # -1 <=> (pc = "done" /\ result = Returned /\ files # <<>>)
    /\ summary # -1 =>
           /\ summary = Len(files)
           /\ file_index = Len(files) + 1
           /\ \A i \in 1..Len(files) :
                  invoked[i] = 1 /\ outcome[i] \in {"ok", "skipped"}

\* C34 witness: three files were listed, every one of them was skipped, and
\* the summary says three.
C34_Witness ==
    /\ summary = 3
    /\ outcome = <<"skipped", "skipped", "skipped">>
    /\ pc = "done"

\* C35: buffer lifetime. Downloaded content is held only while its file's
\* pipeline is in progress, and it is that file's content: once the pipeline
\* has ended, by success or by any failure, nothing of it is held, so the
\* next file's pipeline starts with no buffer live.
C35_BufferLifetime ==
    /\ \A k \in 1..Len(buffer) : buffer[k][1] = file_index
    /\ \A k \in 1..Len(file_content) : file_content[k][1] = file_index
    /\ \A k \in 1..Len(uploaded_content) : uploaded_content[k][1] = file_index
    /\ (buffer # <<>> \/ file_content # <<>> \/ uploaded_content # <<>>) =>
           /\ pc \in {"download", "upload", "import", "sleep", "poll", "except"}
           /\ outcome[file_index] = "pending"
           /\ CountOps("chunk") > 0

\* C35 witness: the second file's pipeline starts after the first file,
\* whose content had been downloaded and uploaded, failed at its import, and
\* no content is held.
C35_Witness ==
    /\ pc = "loop"
    /\ file_index = 2
    /\ outcome[1] = "skipped"
    /\ ops # <<>>
    /\ LastOp = Op("import", TRUE, 0)
    /\ buffer = <<>>
    /\ file_content = <<>>
    /\ uploaded_content = <<>>

\* Where the log of a file's remote operations and their answers puts the
\* file's pipeline, the file's own descriptor deciding for the empty log:
\* the stage in progress, "failed" or "ok". Nothing else is read.
Expected(log, file_info) ==
    IF log = <<>>
    THEN IF validate_file_id(file_info.id) # NoError THEN "failed" ELSE "size"
    ELSE LET last == log[Len(log)]
             count(name) == Cardinality({k \in 1..Len(log) : log[k].op = name})
         IN  CASE last.failed -> "failed"
               [] last.op = "metadata" ->
                      IF last.flag = 1 THEN "failed" ELSE "download"
               [] last.op = "chunk" ->
                      IF last.flag = 1 THEN "upload"
                      ELSE IF count("chunk") < _get_max_chunks THEN "download"
                      ELSE "failed"
               [] last.op = "upload" ->
                      IF last.flag = 1 THEN "import" ELSE "failed"
               [] OTHER ->
                      IF last.flag = 0
                      THEN IF count("poll") < MAX_POLL_ATTEMPTS THEN "polling"
                           ELSE "failed"
                      ELSE IF last.flag = 2 THEN "failed"
                      ELSE "ok"

\* The locals of a file's pipeline are as they are before any file.
FreshLocals ==
    /\ file_size_bytes = -1
    /\ file_metadata = NoMetadata
    /\ empty_warning = FALSE
    /\ chunk_count = 0
    /\ buffer = <<>>
    /\ file_content = <<>>
    /\ uploaded_name = 0
    /\ operation = NoOperation
    /\ poll_attempts = 0
    /\ current_interval = Rat(INITIAL_POLL_INTERVAL, 1)
    /\ uploaded_content = <<>>
    /\ stream_len = 0
    /\ error = NoError

\* C36: file independence. Every file's pipeline starts from the same local
\* state whatever happened to the files before it; where the pipeline
\* stands, the operation it issues next and the file's outcome are fixed by
\* the file's own descriptor and the remote's answers to the file's own
\* operations; and no step of one file touches the outcome or the
\* invocation count of another.
C36_FileIndependence ==
    /\ []((pc = "loop" \/ (pc = "size" /\ ops = <<>>)) => FreshLocals)
    /\ [](pc \in {"size", "download", "upload", "import", "sleep", "poll", "except"} =>
              LET at == Expected(ops, files[file_index])
              IN  CASE at = "polling" -> pc \in {"sleep", "poll"}
                    [] at = "failed" -> pc = "except"
                    [] at = "ok" -> FALSE
                    [] OTHER -> pc = at)
    /\ []((pc \in {"loop", "done"} /\ file_index > 1 /\ result.kind # "raised") =>
              LET at == Expected(ops, files[LoggedFile])
              IN  /\ at \in {"ok", "failed"}
                  /\ outcome[LoggedFile] = IF at = "ok" THEN "ok" ELSE "skipped")
    /\ [][\A j \in 1..Len(outcome) :
              j # file_index => outcome'[j] = outcome[j] /\ invoked'[j] = invoked[j]]_vars

\* C36 witness: the third file went through the full pipeline and was
\* indexed after the first file was skipped and the second indexed.
C36_Witness ==
    /\ pc = "loop"
    /\ file_index = 4
    /\ outcome = <<"skipped", "ok", "ok">>
    /\ ops = <<Op("metadata", FALSE, 0), Op("chunk", FALSE, 1),
               Op("upload", FALSE, 1), Op("import", FALSE, 0), Op("poll", FALSE, 1)>>

\* C37: every import job references the store the connector created at its
\* construction and the blob name returned by the upload of the same file,
\* whose blob exists; and the bytes sent by a file's upload are exactly the
\* bytes its download received, chunk by chunk.
C37_ImportReferencesOwnBlob ==
    /\ \A j \in jobs :
           /\ j.file_search_store_name = _create_store
           /\ j.file_name = BlobName(j.file)
           /\ \E b \in blobs : b.file = j.file /\ b.name = j.file_name
    /\ \A j1 \in jobs, j2 \in jobs : j1.file # j2.file => j1.file_name # j2.file_name
    /\ pc \in {"import", "sleep", "poll"} =>
           /\ uploaded_name = BlobName(file_index)
           /\ uploaded_content = buffer
           /\ uploaded_content = ChunksUpTo(file_index, stream_len)
           /\ uploaded_content # <<>>

\* C37 witness: the job of the second file is being polled while the blob
\* and the job of the first file exist.
C37_Witness ==
    /\ pc = "poll"
    /\ file_index = 2
    /\ Cardinality(jobs) = 2
    /\ Cardinality(blobs) = 2
    /\ uploaded_content = <<Chunk(2, 1)>>

\* The last step taken by the connector or the credential provider.
LastEvent == events[Len(events)]

\* The steps taken since get_service was last called.
RECURSIVE SinceGetService(_)
SinceGetService(log) ==
    IF log = <<>> \/ log[Len(log)] = "get_service" THEN <<>>
    ELSE Append(SinceGetService(SubSeq(log, 1, Len(log) - 1)), log[Len(log)])

\* The given step was taken in the call of get_service in progress or last
\* made.
Took(step) ==
    LET since == SinceGetService(events)
    IN  \E k \in 1..Len(since) : since[k] = step

\* C38: over any sequence of sync_folder_to_store calls on one connector the
\* Drive client is created at most once and get_service returns a service at
\* most once, which every later call reuses; every call that has its handler
\* lists the folder anew, with requests of its own.
C38_ClientAndServiceCachedOnce ==
    /\ CountEvents("DriveClient") <= 1
    /\ CountEvents("service") <= 1
    /\ _drive_client = CountEvents("DriveClient")
    /\ _service = CountEvents("service")
    /\ CountEvents("handler") <= CountEvents("sync")
    /\ pc \in {"idle", "listing", "listed"} =>
           /\ LastEvent = "handler"
           /\ _service = 1
           /\ result = Running
    /\ pc = "idle" => requests = 0 /\ files = <<>>
    /\ pc = "listed" => requests = Len(drive) /\ files = Flatten(drive)
    /\ (pc = "done" /\ LastEvent = "handler") =>
           IF BlankFolderId THEN requests = 0 /\ result.kind = "raised"
           ELSE requests >= 1

\* C38 witness: the third call on a connector listed its two-page folder
\* with the client and the service of the first call.
C38_Witness ==
    /\ CountEvents("sync") = 3
    /\ CountEvents("handler") = 3
    /\ CountEvents("DriveClient") = 1
    /\ CountEvents("get_service") = 1
    /\ pc = "listed"
    /\ requests = 2

\* The cases in which loading yields no valid credentials.
NoValidCredentials == {"missing", "corrupted", "not_refreshable", "refresh_failed"}

====
